---- MODULE Spec2Model ----
(***************************************************************************)
(* AES-GCM cipher engine of libsrtp on top of the mbedtls cipher layer     *)
(* (crypto/cipher/aes_gcm_mbedtls.c, crypto/include/aes_gcm_mbedtls.h).    *)
(*                                                                         *)
(* The module models one cipher object (srtp_cipher_t with its             *)
(* srtp_aes_gcm_ctx_t state), the caller's in/out buffer, the packet that  *)
(* the encrypting side put on the wire, and the eight entry points of the  *)
(* cipher type table.  Every entry point is an operator over the context   *)
(* record, translated statement by statement, and one action applies it.   *)
(* The mbedtls cipher layer is not part of the repository; it is modelled  *)
(* by its documented behaviour for GCM: counter-mode keystream and a tag   *)
(* that is an ideal (collision-free) function of key, nonce, associated    *)
(* data and ciphertext.                                                    *)
(***************************************************************************)
EXTENDS Integers, Sequences, FiniteSets, TLC

(***************************************************************************)
(* Program constants                                                       *)
(***************************************************************************)
GCM_AUTH_TAG_LEN == 16
GCM_AUTH_TAG_LEN_8 == 8
SRTP_AES_GCM_128_KEY_LEN_WSALT == 28
SRTP_AES_GCM_256_KEY_LEN_WSALT == 44
SRTP_AES_128_KEY_LEN == 16
SRTP_AES_256_KEY_LEN == 32
\* unsigned char aad[1024] of srtp_aes_gcm_ctx_t
AAD_CAPACITY == 1024
\* the values of an unsigned char
OCTET == 256
\* the nonce length handed to mbedtls_cipher_set_iv
GCM_IV_LEN == 12

\* srtp_cipher_direction_t: the enumeration starts at encrypt, so a
\* zero-filled context reads as srtp_direction_encrypt
srtp_direction_encrypt == 0
srtp_direction_decrypt == 1
srtp_direction_any == 2

\* srtp_err_status_t
srtp_err_status_ok == "ok"
srtp_err_status_bad_param == "bad_param"
srtp_err_status_alloc_fail == "alloc_fail"
srtp_err_status_init_fail == "init_fail"
srtp_err_status_algo_fail == "algo_fail"
srtp_err_status_cipher_fail == "cipher_fail"
srtp_err_status_auth_fail == "auth_fail"

\* mbedtls return codes and operation tags
MBEDTLS_OK == "0"
MBEDTLS_ERR_CIPHER_BAD_INPUT_DATA == "CIPHER_BAD_INPUT_DATA"
MBEDTLS_ERR_CIPHER_AUTH_FAILED == "CIPHER_AUTH_FAILED"
MBEDTLS_ERR_CIPHER_ALLOC_FAILED == "CIPHER_ALLOC_FAILED"
MBEDTLS_ERR_GCM_BAD_INPUT == "GCM_BAD_INPUT"
MBEDTLS_ENCRYPT == "ENCRYPT"
MBEDTLS_DECRYPT == "DECRYPT"
MBEDTLS_OPERATION_NONE == "NONE"
MBEDTLS_CIPHER_NONE == 0
MBEDTLS_CIPHER_AES_128_GCM == 128
MBEDTLS_CIPHER_AES_256_GCM == 256

(***************************************************************************)
(* Bounds of the model                                                     *)
(***************************************************************************)
\* entry-point calls explored for a caller that calls in any order
MaxOps == 5
\* entry-point calls explored for a caller that follows the protocol
MaxFlow == 10

Max(x, y) == IF x >= y THEN x ELSE y
Min(x, y) == IF x <= y THEN x ELSE y

NoKey == 0
NoIv == -1
\* keys and nonces are named 1, 2, ...; the cipher treats all keys alike and
\* all nonces alike, so a call draws from the values used so far and the
\* least value not used yet
KeyNames == {1, 2}
NonceNames == {1, 2}
Keys(seen) == {k \in KeyNames : k <= seen + 1}
Nonces(seen) == {i \in NonceNames : i <= seen + 1}
\* An octet of the caller's buffer: a data octet carries its value in v; an
\* octet of a tag carries in t what the tag was computed over
D(n) == [v |-> n, t |-> <<>>]
Plaintexts == {<<>>, <<D(1), D(2)>>}

(***************************************************************************)
(* Octet arrays of associated data                                         *)
(*                                                                         *)
(* The associated-data array and the spans copied into it are kept         *)
(* run-length encoded: a sequence of runs <<octet, count>>, count > 0,     *)
(* neighbouring runs of different octets.  The zero-initialised array      *)
(* c->aad is kept up to its last non-zero octet.                           *)
(***************************************************************************)
Run(b, k) == IF k = 0 THEN <<>> ELSE << <<b, k>> >>

\* number of octets
RECURSIVE RLen(_)
RLen(r) == IF r = <<>> THEN 0 ELSE r[1][2] + RLen(Tail(r))

\* concatenation
RCat(r, s) ==
    IF r = <<>> THEN s
    ELSE IF s = <<>> THEN r
    ELSE IF r[Len(r)][1] = s[1][1]
    THEN SubSeq(r, 1, Len(r) - 1)
         \o << <<s[1][1], r[Len(r)][2] + s[1][2]>> >> \o Tail(s)
    ELSE r \o s

\* the first k octets
RECURSIVE RTake(_, _)
RTake(r, k) ==
    IF k <= 0 \/ r = <<>> THEN <<>>
    ELSE IF r[1][2] >= k THEN << <<r[1][1], k>> >>
    ELSE <<r[1]>> \o RTake(Tail(r), k - r[1][2])

\* all but the first k octets
RECURSIVE RDrop(_, _)
RDrop(r, k) ==
    IF r = <<>> THEN <<>>
    ELSE IF k <= 0 THEN r
    ELSE IF r[1][2] > k THEN << <<r[1][1], r[1][2] - k>> >> \o Tail(r)
    ELSE RDrop(Tail(r), k - r[1][2])

RTrimZ(r) == IF r # <<>> /\ r[Len(r)][1] = 0
             THEN SubSeq(r, 1, Len(r) - 1) ELSE r

\* the first k octets of the zero-initialised array a
Prefix(a, k) == RTake(RCat(a, Run(0, Max(0, k - RLen(a)))), k)

\* memcpy(a + off, src, RLen(src)) into an array of capacity cap; octets
\* that would land beyond cap are not part of the array
MemcpyAt(a, off, src, cap) ==
    RTrimZ(RTake(RCat(RCat(Prefix(a, off), src),
                      RDrop(a, off + RLen(src))), cap))

\* the long span is one octet short of the capacity of c->aad
BigAad == Run(3, AAD_CAPACITY - 1)
AadSpans == {Run(1, 1), Run(2, 1), BigAad}

(***************************************************************************)
(* The mbedtls cipher layer, GCM mode                                      *)
(*                                                                         *)
(* A cipher context holds: info (cipher_info, 0 = NULL), key, operation,   *)
(* iv, and the running GCM state: started (gcm_starts has run), ad (the    *)
(* associated data hashed), data (the ciphertext hashed so far), fin (the  *)
(* number of times the tag was computed from this running state).          *)
(***************************************************************************)
\* mbedtls_cipher_init: memset to zero
ZeroSub == [info |-> MBEDTLS_CIPHER_NONE, key |-> NoKey,
            operation |-> MBEDTLS_OPERATION_NONE, iv |-> NoIv,
            started |-> FALSE, ad |-> <<>>, data |-> <<>>, fin |-> 0]

mbedtls_cipher_init == ZeroSub

\* a context whose first octets were overwritten by a stray memcpy
SmashedSub == [ZeroSub EXCEPT !.info = -1]

\* the GCM keystream octet at position pos (counter mode: a function of
\* key, nonce and position only)
KeyStream(key, iv, pos) == (2 * key + iv + 3 * pos + 1) % OCTET

\* counter-mode transformation of a run of octets starting at position pos
Ctr(key, iv, pos, in, encrypting) ==
    [i \in 1..Len(in) |->
        [in[i] EXCEPT !.v =
            IF encrypting THEN (@ + KeyStream(key, iv, pos + i)) % OCTET
            ELSE (@ + OCTET - KeyStream(key, iv, pos + i)) % OCTET]]

\* the tag, octet by octet: an ideal function of everything GHASH covers
GcmTag(s, tag_len) ==
    [i \in 1..tag_len |->
        [v |-> i % OCTET,
         t |-> <<[key |-> s.key, iv |-> s.iv, ad |-> s.ad, data |-> s.data,
                  fin |-> s.fin, i |-> i]>>]]

mbedtls_cipher_setup(s, type, oom) ==
    IF oom THEN [ret |-> MBEDTLS_ERR_CIPHER_ALLOC_FAILED, ctx |-> ZeroSub]
    ELSE [ret |-> MBEDTLS_OK, ctx |-> [ZeroSub EXCEPT !.info = type]]

mbedtls_cipher_setkey(s, key, bits, operation) ==
    IF s.info = MBEDTLS_CIPHER_NONE \/ s.info # bits
    THEN [ret |-> MBEDTLS_ERR_CIPHER_BAD_INPUT_DATA, ctx |-> s]
    ELSE [ret |-> MBEDTLS_OK,
          ctx |-> [s EXCEPT !.key = key, !.operation = operation]]

\* only unprocessed_len is cleared: nothing of the GCM state changes
mbedtls_cipher_reset(s) ==
    IF s.info = MBEDTLS_CIPHER_NONE
    THEN [ret |-> MBEDTLS_ERR_CIPHER_BAD_INPUT_DATA, ctx |-> s]
    ELSE [ret |-> MBEDTLS_OK, ctx |-> s]

mbedtls_cipher_set_iv(s, iv, iv_len) ==
    IF s.info = MBEDTLS_CIPHER_NONE
    THEN [ret |-> MBEDTLS_ERR_CIPHER_BAD_INPUT_DATA, ctx |-> s]
    ELSE [ret |-> MBEDTLS_OK, ctx |-> [s EXCEPT !.iv = iv]]

\* GCM: mbedtls_gcm_starts(operation, iv, ad): restarts the running state
\* under the installed nonce
mbedtls_cipher_update_ad(s, ad) ==
    IF s.info = MBEDTLS_CIPHER_NONE
    THEN [ret |-> MBEDTLS_ERR_CIPHER_BAD_INPUT_DATA, ctx |-> s]
    ELSE IF s.iv = NoIv \/ s.key = NoKey
    THEN [ret |-> MBEDTLS_ERR_GCM_BAD_INPUT, ctx |-> s]
    ELSE [ret |-> MBEDTLS_OK,
          ctx |-> [s EXCEPT !.started = TRUE, !.ad = ad, !.data = <<>>,
                            !.fin = 0]]

\* GCM: *olen = ilen, mbedtls_gcm_update(ilen, input, output)
mbedtls_cipher_update(s, input) ==
    IF s.info = MBEDTLS_CIPHER_NONE
    THEN [ret |-> MBEDTLS_ERR_CIPHER_BAD_INPUT_DATA, ctx |-> s,
          out |-> <<>>, olen |-> 0]
    ELSE IF s.key = NoKey
    THEN [ret |-> MBEDTLS_ERR_GCM_BAD_INPUT, ctx |-> s,
          out |-> <<>>, olen |-> Len(input)]
    ELSE LET enc == s.operation = MBEDTLS_ENCRYPT
             o == Ctr(s.key, s.iv, Len(s.data), input, enc)
         IN [ret |-> MBEDTLS_OK,
             ctx |-> [s EXCEPT !.data = @ \o (IF enc THEN o ELSE input)],
             out |-> o, olen |-> Len(input)]

\* the encrypt path calls a patched copy of mbedtls_cipher_update
mbedtls_cipher_update_patched(s, input) == mbedtls_cipher_update(s, input)

\* GCM: nothing is buffered, *olen = 0
mbedtls_cipher_finish(s) ==
    IF s.info = MBEDTLS_CIPHER_NONE
    THEN [ret |-> MBEDTLS_ERR_CIPHER_BAD_INPUT_DATA, ctx |-> s, olen |-> 0]
    ELSE [ret |-> MBEDTLS_OK, ctx |-> s, olen |-> 0]

mbedtls_cipher_write_tag(s, tag_len) ==
    IF s.info = MBEDTLS_CIPHER_NONE \/ s.operation # MBEDTLS_ENCRYPT
    THEN [ret |-> MBEDTLS_ERR_CIPHER_BAD_INPUT_DATA, ctx |-> s, tag |-> <<>>]
    ELSE [ret |-> MBEDTLS_OK, ctx |-> [s EXCEPT !.fin = @ + 1],
          tag |-> GcmTag(s, tag_len)]

mbedtls_cipher_check_tag(s, tag, tag_len) ==
    IF s.info = MBEDTLS_CIPHER_NONE \/ s.operation # MBEDTLS_DECRYPT
    THEN [ret |-> MBEDTLS_ERR_CIPHER_BAD_INPUT_DATA, ctx |-> s]
    ELSE IF tag # GcmTag(s, tag_len)
    THEN [ret |-> MBEDTLS_ERR_CIPHER_AUTH_FAILED,
          ctx |-> [s EXCEPT !.fin = @ + 1]]
    ELSE [ret |-> MBEDTLS_OK, ctx |-> [s EXCEPT !.fin = @ + 1]]

mbedtls_cipher_get_block_size(s) ==
    IF s.info = MBEDTLS_CIPHER_NONE THEN 0 ELSE 16

(***************************************************************************)
(* The cipher engine: crypto/cipher/aes_gcm_mbedtls.c                      *)
(*                                                                         *)
(* c is the srtp_aes_gcm_ctx_t record.  Every entry point returns its      *)
(* status, the context it leaves, and the primitive calls it made, in      *)
(* order, each with the sub-context it was made on and its return code.    *)
(***************************************************************************)
\* memset(gcm, 0x0, sizeof(srtp_aes_gcm_ctx_t)) followed by the two
\* mbedtls_cipher_init calls
ZeroCtx == [key_size |-> 0, tag_len |-> 0, aad_len |-> 0, aad |-> <<>>,
            ctxe |-> mbedtls_cipher_init, ctxd |-> mbedtls_cipher_init,
            dir |-> 0]

NoCipher == [algorithm |-> 0, key_len |-> 0, state |-> FALSE]

\* ct = (c->dir == srtp_direction_encrypt) ? &(c->ctxe) : &(c->ctxd)
Sel(c) == IF c.dir = srtp_direction_encrypt THEN "e" ELSE "d"
Sub(c, w) == IF w = "e" THEN c.ctxe ELSE c.ctxd
Put(c, w, s) == IF w = "e" THEN [c EXCEPT !.ctxe = s]
                ELSE [c EXCEPT !.ctxd = s]
Call(fn, w, ret, arg) == [fn |-> fn, sub |-> w, ret |-> ret, arg |-> arg]

\* alloc with the tag length only checked against the longest tag
srtp_aes_gcm_mbedtls_alloc_tag_bound(key_len, tlen, oom) ==
    IF key_len # SRTP_AES_GCM_128_KEY_LEN_WSALT
       /\ key_len # SRTP_AES_GCM_256_KEY_LEN_WSALT
    THEN [ret |-> srtp_err_status_bad_param, made |-> FALSE,
          cipher |-> NoCipher, c |-> ZeroCtx]
    ELSE IF tlen > GCM_AUTH_TAG_LEN
    THEN [ret |-> srtp_err_status_bad_param, made |-> FALSE,
          cipher |-> NoCipher, c |-> ZeroCtx]
    ELSE IF oom # 0
    THEN [ret |-> srtp_err_status_alloc_fail, made |-> FALSE,
          cipher |-> NoCipher, c |-> ZeroCtx]
    ELSE LET ks == IF key_len = SRTP_AES_GCM_128_KEY_LEN_WSALT
                   THEN SRTP_AES_128_KEY_LEN ELSE SRTP_AES_256_KEY_LEN
             alg == IF key_len = SRTP_AES_GCM_128_KEY_LEN_WSALT
                    THEN MBEDTLS_CIPHER_AES_128_GCM
                    ELSE MBEDTLS_CIPHER_AES_256_GCM
         IN [ret |-> srtp_err_status_ok, made |-> TRUE,
             cipher |-> [algorithm |-> alg, key_len |-> key_len,
                         state |-> TRUE],
             c |-> [ZeroCtx EXCEPT !.key_size = ks, !.tag_len = tlen]]

\* oom: 0 = memory available, 1 = the allocation of the cipher fails,
\* 2 = the allocation of the context fails
srtp_aes_gcm_mbedtls_alloc(key_len, tlen, oom) ==
    IF key_len # SRTP_AES_GCM_128_KEY_LEN_WSALT
       /\ key_len # SRTP_AES_GCM_256_KEY_LEN_WSALT
    THEN [ret |-> srtp_err_status_bad_param, made |-> FALSE,
          cipher |-> NoCipher, c |-> ZeroCtx]
    ELSE IF tlen # GCM_AUTH_TAG_LEN /\ tlen # GCM_AUTH_TAG_LEN_8
    THEN [ret |-> srtp_err_status_bad_param, made |-> FALSE,
          cipher |-> NoCipher, c |-> ZeroCtx]
    ELSE IF oom # 0
    THEN [ret |-> srtp_err_status_alloc_fail, made |-> FALSE,
          cipher |-> NoCipher, c |-> ZeroCtx]
    ELSE LET ks == IF key_len = SRTP_AES_GCM_128_KEY_LEN_WSALT
                   THEN SRTP_AES_128_KEY_LEN ELSE SRTP_AES_256_KEY_LEN
             alg == IF key_len = SRTP_AES_GCM_128_KEY_LEN_WSALT
                    THEN MBEDTLS_CIPHER_AES_128_GCM
                    ELSE MBEDTLS_CIPHER_AES_256_GCM
         IN [ret |-> srtp_err_status_ok, made |-> TRUE,
             cipher |-> [algorithm |-> alg, key_len |-> key_len,
                         state |-> TRUE],
             c |-> [ZeroCtx EXCEPT !.key_size = ks, !.tag_len = tlen]]

\* oom: 0 = memory available, 1 / 2 = mbedtls_cipher_setup of the encrypt /
\* decrypt sub-context cannot allocate
\* The statements of context_init after the two assignments to c->dir and
\* c->aad_len; c0 is the context as they leave it.
ContextInitFrom(c0, key, oom) ==
    LET known == c0.key_size = SRTP_AES_256_KEY_LEN
                 \/ c0.key_size = SRTP_AES_128_KEY_LEN
        evp == IF c0.key_size = SRTP_AES_256_KEY_LEN
               THEN MBEDTLS_CIPHER_AES_256_GCM
               ELSE MBEDTLS_CIPHER_AES_128_GCM
        r1 == mbedtls_cipher_setup(c0.ctxe, evp, oom = 1)
        c1 == Put(c0, "e", r1.ctx)
        r2 == mbedtls_cipher_setup(c1.ctxd, evp, oom = 2)
        c2 == Put(c1, "d", r2.ctx)
        r3 == mbedtls_cipher_setkey(c2.ctxe, key, c2.key_size * 8,
                                    MBEDTLS_ENCRYPT)
        c3 == Put(c2, "e", r3.ctx)
        r4 == mbedtls_cipher_setkey(c3.ctxd, key, c3.key_size * 8,
                                    MBEDTLS_DECRYPT)
        c4 == Put(c3, "d", r4.ctx)
        k1 == <<Call("setup", "e", r1.ret, evp)>>
        k2 == k1 \o <<Call("setup", "d", r2.ret, evp)>>
        k3 == k2 \o <<Call("setkey", "e", r3.ret, key)>>
        k4 == k3 \o <<Call("setkey", "d", r4.ret, key)>>
    IN IF ~known
       THEN [ret |-> srtp_err_status_bad_param, c |-> c0, calls |-> <<>>]
       ELSE IF r1.ret # MBEDTLS_OK
       THEN [ret |-> srtp_err_status_init_fail, c |-> c1, calls |-> k1]
       ELSE IF r2.ret # MBEDTLS_OK
       THEN [ret |-> srtp_err_status_init_fail, c |-> c2, calls |-> k2]
       ELSE IF r3.ret # MBEDTLS_OK
       THEN [ret |-> srtp_err_status_init_fail, c |-> c3, calls |-> k3]
       ELSE IF r4.ret # MBEDTLS_OK
       THEN [ret |-> srtp_err_status_init_fail, c |-> c4, calls |-> k4]
       ELSE [ret |-> srtp_err_status_ok, c |-> c4, calls |-> k4]

\* context_init that leaves the buffered associated data in place
srtp_aes_gcm_mbedtls_context_init_keeps_aad(c, key, oom) ==
    ContextInitFrom([c EXCEPT !.dir = srtp_direction_any], key, oom)

\* c->dir = srtp_direction_any; c->aad_len = 0; then the switch on key_size
\* and the set-up of both sub-contexts
srtp_aes_gcm_mbedtls_context_init(c, key, oom) ==
    ContextInitFrom([c EXCEPT !.dir = srtp_direction_any, !.aad_len = 0],
                    key, oom)

\* The statements of set_iv; valid is the outcome of the test of the
\* direction argument.
SetIvWith(c, iv, direction, valid) ==
    LET c0 == [c EXCEPT !.dir = direction]
        w == Sel(c0)
        r1 == mbedtls_cipher_reset(Sub(c0, w))
        c1 == Put(c0, w, r1.ctx)
        r2 == mbedtls_cipher_set_iv(Sub(c1, w), iv, GCM_IV_LEN)
        c2 == Put(c1, w, r2.ctx)
        r3 == mbedtls_cipher_update_ad(Sub(c2, w), <<>>)
        c3 == Put(c2, w, r3.ctx)
        k1 == <<Call("reset", w, r1.ret, <<>>)>>
        k2 == k1 \o <<Call("set_iv", w, r2.ret, iv)>>
        k3 == k2 \o <<Call("update_ad", w, r3.ret, <<>>)>>
    IN IF ~valid
       THEN [ret |-> srtp_err_status_bad_param, c |-> c, calls |-> <<>>]
       ELSE IF r1.ret # MBEDTLS_OK
       THEN [ret |-> srtp_err_status_algo_fail, c |-> c1, calls |-> k1]
       ELSE IF r2.ret # MBEDTLS_OK
       THEN [ret |-> srtp_err_status_init_fail, c |-> c2, calls |-> k2]
       ELSE IF r3.ret # MBEDTLS_OK
       THEN [ret |-> srtp_err_status_init_fail, c |-> c3, calls |-> k3]
       ELSE [ret |-> srtp_err_status_ok, c |-> c3, calls |-> k3]

\* set_iv without the test of the direction argument
srtp_aes_gcm_mbedtls_set_iv_any_direction(c, iv, direction) ==
    SetIvWith(c, iv, direction, TRUE)

srtp_aes_gcm_mbedtls_set_iv(c, iv, direction) ==
    SetIvWith(c, iv, direction,
              ~(direction # srtp_direction_encrypt
                /\ direction # srtp_direction_decrypt))

\* set_aad that copies to the start of c->aad
srtp_aes_gcm_mbedtls_set_aad_at_start(c, aad) ==
    [ret |-> srtp_err_status_ok,
     c |-> [c EXCEPT !.aad = MemcpyAt(c.aad, 0, aad, AAD_CAPACITY),
                     !.aad_len = c.aad_len + RLen(aad)],
     over |-> Max(0, c.aad_len + RLen(aad) - AAD_CAPACITY),
     calls |-> <<>>]

\* memcpy(c->aad + c->aad_len, aad, aad_len); c->aad_len += aad_len.
\* There is no check against the capacity of c->aad: over is the number of
\* octets the memcpy writes beyond the array, into the ctxe member.
srtp_aes_gcm_mbedtls_set_aad(c, aad) ==
    [ret |-> srtp_err_status_ok,
     c |-> [c EXCEPT !.aad = MemcpyAt(c.aad, c.aad_len, aad, AAD_CAPACITY),
                     !.aad_len = c.aad_len + RLen(aad)],
     over |-> Max(0, c.aad_len + RLen(aad) - AAD_CAPACITY),
     calls |-> <<>>]

\* The statements of encrypt.  valid is the outcome of the direction test,
\* w the sub-context ct points to, fwd the outcome of c->aad_len != 0.
\* buf holds the caller's octets, enc_len is *enc_len on entry.  The result
\* carries the buffer and *enc_len as the call leaves them.
EncryptWith(c, buf, enc_len, valid, w, fwd) ==
    LET r1 == mbedtls_cipher_reset(Sub(c, w))
        c1 == Put(c, w, r1.ctx)
        r2 == mbedtls_cipher_update_ad(Sub(c1, w), Prefix(c1.aad, c1.aad_len))
        c2 == Put(c1, w, r2.ctx)
        k1 == <<Call("reset", w, r1.ret, <<>>)>>
        k2 == k1 \o <<Call("update_ad", w, r2.ret,
                           Prefix(c1.aad, c1.aad_len))>>
        cA == IF fwd THEN c2 ELSE c
        kA == IF fwd THEN k2 ELSE <<>>
        in == SubSeq(buf, 1, enc_len)
        r3 == mbedtls_cipher_update_patched(Sub(cA, w), in)
        c3 == Put(cA, w, r3.ctx)
        k3 == kA \o <<Call("update", w, r3.ret, in)>>
        r4 == mbedtls_cipher_finish(Sub(c3, w))
        c4 == Put(c3, w, r4.ctx)
        k4 == k3 \o <<Call("finish", w, r4.ret, <<>>)>>
        n == r3.olen + r4.olen
        buf_tmp == r3.out
    IN IF ~valid
       THEN [ret |-> srtp_err_status_bad_param, c |-> c, buf |-> buf,
             len |-> enc_len, calls |-> <<>>]
       ELSE IF fwd /\ r1.ret # MBEDTLS_OK
       THEN [ret |-> srtp_err_status_algo_fail, c |-> c1, buf |-> buf,
             len |-> enc_len, calls |-> k1]
       ELSE IF fwd /\ r2.ret # MBEDTLS_OK
       THEN [ret |-> srtp_err_status_algo_fail, c |-> c2, buf |-> buf,
             len |-> enc_len, calls |-> k2]
       ELSE IF r3.ret # MBEDTLS_OK
       THEN [ret |-> srtp_err_status_cipher_fail, c |-> c3, buf |-> buf,
             len |-> enc_len, calls |-> k3]
       ELSE IF r4.ret # MBEDTLS_OK
       THEN [ret |-> srtp_err_status_cipher_fail, c |-> c4, buf |-> buf,
             len |-> r3.olen, calls |-> k4]
       ELSE [ret |-> srtp_err_status_ok, c |-> c4,
             buf |-> SubSeq(buf_tmp, 1, n) \o SubSeq(buf, n + 1, Len(buf)),
             len |-> n, calls |-> k4]

DirIsSet(c) == ~(c.dir # srtp_direction_encrypt
                 /\ c.dir # srtp_direction_decrypt)

\* encrypt without the direction test
srtp_aes_gcm_mbedtls_encrypt_unchecked(c, buf, enc_len) ==
    EncryptWith(c, buf, enc_len, TRUE, Sel(c), c.aad_len # 0)

\* encrypt that always works on ctxe
srtp_aes_gcm_mbedtls_encrypt_on_ctxe(c, buf, enc_len) ==
    EncryptWith(c, buf, enc_len, DirIsSet(c), "e", c.aad_len # 0)

\* encrypt that never hands the buffered associated data to the primitive
srtp_aes_gcm_mbedtls_encrypt_no_aad(c, buf, enc_len) ==
    EncryptWith(c, buf, enc_len, DirIsSet(c), Sel(c), FALSE)

\* encrypt that clears the caller's octets when it fails
srtp_aes_gcm_mbedtls_encrypt_scrubbing(c, buf, enc_len) ==
    LET r == EncryptWith(c, buf, enc_len, DirIsSet(c), Sel(c), c.aad_len # 0)
    IN IF r.ret # srtp_err_status_ok
       THEN [r EXCEPT !.buf = [i \in 1..Len(buf) |-> D(0)]]
       ELSE r

srtp_aes_gcm_mbedtls_encrypt(c, buf, enc_len) ==
    EncryptWith(c, buf, enc_len, DirIsSet(c), Sel(c), c.aad_len # 0)

\* get_tag that records the caller's length in c->tag_len
srtp_aes_gcm_mbedtls_get_tag_records_len(c, buf, len) ==
    LET w == Sel(c)
        r1 == mbedtls_cipher_write_tag(Sub(c, w), c.tag_len)
        c1 == Put(c, w, r1.ctx)
        k1 == <<Call("write_tag", w, r1.ret, <<>>)>>
    IN IF r1.ret # MBEDTLS_OK
       THEN [ret |-> srtp_err_status_cipher_fail,
             c |-> [c1 EXCEPT !.tag_len = len], buf |-> buf,
             len |-> len, calls |-> k1]
       ELSE [ret |-> srtp_err_status_ok, c |-> [c1 EXCEPT !.tag_len = len],
             buf |-> r1.tag \o SubSeq(buf, c.tag_len + 1, Len(buf)),
             len |-> c.tag_len, calls |-> k1]

\* buf and len are the tag destination and *len on entry
srtp_aes_gcm_mbedtls_get_tag(c, buf, len) ==
    LET w == Sel(c)
        r1 == mbedtls_cipher_write_tag(Sub(c, w), c.tag_len)
        c1 == Put(c, w, r1.ctx)
        k1 == <<Call("write_tag", w, r1.ret, <<>>)>>
    IN IF r1.ret # MBEDTLS_OK
       THEN [ret |-> srtp_err_status_cipher_fail, c |-> c1, buf |-> buf,
             len |-> len, calls |-> k1]
       ELSE [ret |-> srtp_err_status_ok, c |-> c1,
             buf |-> r1.tag \o SubSeq(buf, c.tag_len + 1, Len(buf)),
             len |-> c.tag_len, calls |-> k1]

\* unsigned int is 32 bits wide: a value is kept as two 16-bit halves
HalfWord == 65536
U32(x) == [hi |-> (x \div HalfWord) % HalfWord, lo |-> x % HalfWord]
\* a - b in unsigned int arithmetic (modulo 2^32)
SubU32(a, b) ==
    LET borrow == IF a.lo < b.lo THEN 1 ELSE 0
    IN [hi |-> (a.hi - b.hi - borrow) % HalfWord,
        lo |-> (a.lo - b.lo) % HalfWord]
LeqU32(a, b) == a.hi < b.hi \/ (a.hi = b.hi /\ a.lo <= b.lo)

\* *enc_len - c->tag_len as decrypt computes it: the int tag_len is
\* converted to unsigned int and the difference is taken modulo 2^32
DecryptCipherLen(enc_len, tag_len) == SubU32(U32(enc_len), U32(tag_len))

\* buf holds ciphertext followed by the tag, enc_len is *enc_len on entry.
\* With enc_len < tag_len the unsigned subtraction *enc_len - c->tag_len
\* wraps and both the tag copy and the update run outside the buffers:
\* wild tells the caller of this operator that this happened.
\* valid, w and fwd are as in EncryptWith; tl is the tag length used to
\* split the input.
DecryptWith(c, buf, enc_len, valid, w, fwd, tl) ==
    LET r1 == mbedtls_cipher_reset(Sub(c, w))
        c1 == Put(c, w, r1.ctx)
        r2 == mbedtls_cipher_update_ad(Sub(c1, w), Prefix(c1.aad, c1.aad_len))
        c2 == Put(c1, w, r2.ctx)
        k1 == <<Call("reset", w, r1.ret, <<>>)>>
        k2 == k1 \o <<Call("update_ad", w, r2.ret,
                           Prefix(c1.aad, c1.aad_len))>>
        cA == IF fwd THEN c2 ELSE c
        kA == IF fwd THEN k2 ELSE <<>>
        buff_tmp == SubSeq(buf, 1, enc_len)
        tag == SubSeq(buff_tmp, enc_len - tl + 1, enc_len)
        in == SubSeq(buff_tmp, 1, enc_len - tl)
        r3 == mbedtls_cipher_update(Sub(cA, w), in)
        c3 == Put(cA, w, r3.ctx)
        k3 == kA \o <<Call("update", w, r3.ret, in)>>
        buf3 == r3.out \o SubSeq(buf, r3.olen + 1, Len(buf))
        r4 == mbedtls_cipher_finish(Sub(c3, w))
        c4 == Put(c3, w, r4.ctx)
        k4 == k3 \o <<Call("finish", w, r4.ret, <<>>)>>
        n == r3.olen + r4.olen
        r5 == mbedtls_cipher_check_tag(Sub(c4, w), tag, tl)
        c5 == Put(c4, w, r5.ctx)
        k5 == k4 \o <<Call("check_tag", w, r5.ret, tag)>>
    IN IF ~valid
       THEN [ret |-> srtp_err_status_bad_param, c |-> c, buf |-> buf,
             len |-> enc_len, calls |-> <<>>, wild |-> FALSE]
       ELSE IF fwd /\ r1.ret # MBEDTLS_OK
       THEN [ret |-> srtp_err_status_algo_fail, c |-> c1, buf |-> buf,
             len |-> enc_len, calls |-> k1, wild |-> FALSE]
       ELSE IF fwd /\ r2.ret # MBEDTLS_OK
       THEN [ret |-> srtp_err_status_algo_fail, c |-> c2, buf |-> buf,
             len |-> enc_len, calls |-> k2, wild |-> FALSE]
       ELSE IF enc_len < tl
       THEN [ret |-> srtp_err_status_cipher_fail, c |-> cA, buf |-> buf,
             len |-> enc_len, calls |-> kA, wild |-> TRUE]
       ELSE IF r3.ret # MBEDTLS_OK
       THEN [ret |-> srtp_err_status_cipher_fail, c |-> c3, buf |-> buf,
             len |-> enc_len, calls |-> k3, wild |-> FALSE]
       ELSE IF r4.ret # MBEDTLS_OK
       THEN [ret |-> srtp_err_status_cipher_fail, c |-> c4, buf |-> buf3,
             len |-> r3.olen, calls |-> k4, wild |-> FALSE]
       ELSE IF r5.ret # MBEDTLS_OK
       THEN [ret |-> srtp_err_status_auth_fail, c |-> c5, buf |-> buf3,
             len |-> n, calls |-> k5, wild |-> FALSE]
       ELSE [ret |-> srtp_err_status_ok, c |-> c5, buf |-> buf3,
             len |-> n, calls |-> k5, wild |-> FALSE]

\* decrypt that never hands the buffered associated data to the primitive
srtp_aes_gcm_mbedtls_decrypt_no_aad(c, buf, enc_len) ==
    DecryptWith(c, buf, enc_len, DirIsSet(c), Sel(c), FALSE, c.tag_len)

\* decrypt that always splits off a tag of the longest length
srtp_aes_gcm_mbedtls_decrypt_long_tag(c, buf, enc_len) ==
    DecryptWith(c, buf, enc_len, DirIsSet(c), Sel(c), c.aad_len # 0,
                GCM_AUTH_TAG_LEN)

\* decrypt that reports every failure before the tag check as a cipher
\* failure
srtp_aes_gcm_mbedtls_decrypt_one_status(c, buf, enc_len) ==
    LET r == DecryptWith(c, buf, enc_len, DirIsSet(c), Sel(c),
                         c.aad_len # 0, c.tag_len)
    IN IF r.ret = srtp_err_status_algo_fail
       THEN [r EXCEPT !.ret = srtp_err_status_cipher_fail]
       ELSE r

\* decrypt that puts the caller's octets and length back when the tag check
\* fails
srtp_aes_gcm_mbedtls_decrypt_restoring(c, buf, enc_len) ==
    LET r == DecryptWith(c, buf, enc_len, DirIsSet(c), Sel(c),
                         c.aad_len # 0, c.tag_len)
    IN IF r.ret = srtp_err_status_auth_fail
       THEN [r EXCEPT !.buf = buf, !.len = enc_len]
       ELSE r

srtp_aes_gcm_mbedtls_decrypt(c, buf, enc_len) ==
    DecryptWith(c, buf, enc_len, DirIsSet(c), Sel(c), c.aad_len # 0,
                c.tag_len)

\* dealloc that frees the sub-contexts and releases the memory without
\* zeroizing the context
srtp_aes_gcm_mbedtls_dealloc_no_zeroize(c) ==
    [ret |-> srtp_err_status_ok,
     c |-> [c EXCEPT !.ctxe = ZeroSub, !.ctxd = ZeroSub],
     cipher |-> NoCipher,
     calls |-> <<Call("free", "e", MBEDTLS_OK, <<>>),
                 Call("free", "d", MBEDTLS_OK, <<>>)>>]

\* mbedtls_cipher_free on both sub-contexts, octet_string_set_to_zero over
\* the whole context, then the memory is released
srtp_aes_gcm_mbedtls_dealloc(c) ==
    [ret |-> srtp_err_status_ok, c |-> ZeroCtx, cipher |-> NoCipher,
     calls |-> <<Call("free", "e", MBEDTLS_OK, <<>>),
                 Call("free", "d", MBEDTLS_OK, <<>>)>>]

(***************************************************************************)
(* State                                                                   *)
(***************************************************************************)
VARIABLES
    cipher,  \* the srtp_cipher_t object, NoCipher when none is allocated
    c,       \* its srtp_aes_gcm_ctx_t
    op,      \* the entry point called last
    arg,     \* the arguments of that call
    status,  \* the status it returned
    calls,   \* the primitive calls it made
    buf,     \* the caller's buffer as that call left it (empty if it has none)
    len,     \* the caller's length as that call left it
    given,   \* the associated data supplied since the last accepted set-IV
    spans,   \* the number of set-AAD calls since the last accepted set-IV
    ukey,    \* the key of the last key initialisation that returned ok
    uiv,     \* the nonce of the last accepted set-IV
    epoch,   \* the call that last allocated or key-initialised the context
    pkts,    \* the set-IV calls accepted since the last key initialisation
    done,    \* an encrypt or decrypt returned ok since the last set-IV call
    phase,   \* where the caller stands in the per-packet protocol
    conf,    \* the caller has followed the protocol in every call so far
    n,       \* the number of entry-point calls so far
    keySeen, \* the number of distinct keys used so far
    ivSeen,  \* the number of distinct nonces used so far
    pkt,     \* the last packet completed by encrypt followed by get-tag
    ub,      \* "none", or the undefined behaviour the program ran into
    trail    \* per sub-context, the update_ad calls since its last reset

vars == <<cipher, c, op, arg, status, calls, buf, len, given, spans, ukey,
          uiv, epoch, pkts, done, phase, conf, n, keySeen, ivSeen, pkt, ub,
          trail>>

NoArg == [key_len |-> 0, tlen |-> 0, oom |-> 0, key |-> NoKey, iv |-> NoIv,
          dir |-> srtp_direction_any, aad |-> <<>>, buf |-> <<>>]
NoPkt == [made |-> FALSE, key |-> NoKey, key_size |-> 0, iv |-> NoIv,
          aad |-> <<>>, pt |-> <<>>, ct |-> <<>>, tag |-> <<>>,
          tag_len |-> 0, first |-> FALSE, spans |-> 0, epoch |-> 0]

\* The (key_len, tlen) pairs a caller allocates with: the 128-bit cipher
\* with the long tag, the 256-bit cipher with the short tag, a key length
\* without salt and a tag length the cipher does not offer.
AllocArgs == {<<SRTP_AES_GCM_128_KEY_LEN_WSALT, GCM_AUTH_TAG_LEN>>,
              <<SRTP_AES_GCM_256_KEY_LEN_WSALT, GCM_AUTH_TAG_LEN_8>>,
              <<SRTP_AES_128_KEY_LEN, GCM_AUTH_TAG_LEN>>,
              <<SRTP_AES_GCM_128_KEY_LEN_WSALT, GCM_IV_LEN>>}
Directions == {srtp_direction_encrypt, srtp_direction_decrypt,
               srtp_direction_any}

\* the caller's room for a tag
TagRoom == [i \in 1..GCM_AUTH_TAG_LEN |-> D(0)]

\* what travels from the encrypting to the decrypting side
Wire(p) == p.ct \o p.tag
FlipAt(s, i) == [s EXCEPT ![i].v = (@ + 1) % OCTET]
ShortInput == <<D(1)>>
\* the inputs a decrypt is tried on: the packet as sent, the packet with
\* its first ciphertext octet changed, with its last tag octet changed, and
\* an input shorter than any tag
DecInputs ==
    IF ~pkt.made THEN {ShortInput, TagRoom}
    ELSE {Wire(pkt), FlipAt(Wire(pkt), Len(Wire(pkt))), ShortInput}
         \cup (IF pkt.ct = <<>> THEN {} ELSE {FlipAt(Wire(pkt), 1)})

(***************************************************************************)
(* The per-packet protocol of the host library:                            *)
(* allocate, key-init, then per packet set-IV, set-AAD (at most twice),    *)
(* encrypt and get-tag, or decrypt; key-init and deallocate between        *)
(* packets.                                                                *)
(***************************************************************************)
Between == {"keyed", "dec", "tag"}
Ready == {"iv", "aad1", "aad2"}

\* the host library supplies header-sized spans and has memory for the
\* sub-contexts
InOrder(o, a) ==
    CASE o = "alloc" -> TRUE
      [] o = "context_init" -> phase \in Between \cup {"unkeyed"}
                               /\ a.oom = 0
      [] o = "dealloc" -> phase \in Between \cup {"unkeyed"}
      [] o = "set_iv" -> phase \in Between
                         /\ a.dir # srtp_direction_any
      [] o = "set_aad" -> phase \in {"iv", "aad1"} /\ a.aad # BigAad
      [] o = "encrypt" -> phase \in Ready
                          /\ c.dir = srtp_direction_encrypt
      [] o = "decrypt" -> phase \in Ready
                          /\ c.dir = srtp_direction_decrypt
      [] o = "get_tag" -> phase = "enc" /\ status = srtp_err_status_ok

PhaseAfter(o, ok) ==
    CASE o = "alloc" -> IF ok THEN "unkeyed" ELSE "none"
      [] o = "dealloc" -> "none"
      [] o = "context_init" -> IF ok THEN "keyed" ELSE "unkeyed"
      [] o = "set_iv" -> IF ok THEN "iv" ELSE phase
      [] o = "set_aad" -> IF phase = "iv" THEN "aad1" ELSE "aad2"
      [] o = "encrypt" -> "enc"
      [] o = "decrypt" -> "dec"
      [] o = "get_tag" -> "tag"

\* a sub-context on which mbedtls_cipher_reset has not been called since
\* it was initialised
NoTrail == [reset |-> FALSE, ads |-> <<>>]

\* The record of the primitive calls k, made in this order, added to the
\* trail t: for each sub-context, whether mbedtls_cipher_reset has been
\* called on it and the arguments of the mbedtls_cipher_update_ad calls
\* made on it since the last such call.
RECURSIVE TrailAfter(_, _)
TrailAfter(t, k) ==
    IF k = <<>> THEN t
    ELSE LET x == k[1]
             cur == t[x.sub]
             nxt == CASE x.fn = "reset" -> [reset |-> TRUE, ads |-> <<>>]
                      [] x.fn = "update_ad"
                           -> [cur EXCEPT !.ads = Append(@, x.arg)]
                      [] x.fn \in {"setup", "free"} -> NoTrail
                      [] OTHER -> cur
         IN TrailAfter([t EXCEPT ![x.sub] = nxt], Tail(k))

\* bookkeeping common to all calls
Called(o, a, ok) ==
    /\ op' = o
    /\ arg' = a
    /\ n' = n + 1
    /\ conf' = (conf /\ InOrder(o, a))
    /\ phase' = PhaseAfter(o, ok)
    /\ trail' = TrailAfter(trail, calls')

\* the call takes no buffer
NoBuffer == buf' = <<>> /\ len' = 0

\* the call starts a new life of the context
NewEpoch ==
    /\ given' = <<>>
    /\ spans' = 0
    /\ uiv' = NoIv
    /\ epoch' = n + 1
    /\ pkts' = 0
    /\ done' = FALSE

Init ==
    /\ cipher = NoCipher
    /\ c = ZeroCtx
    /\ op = "none"
    /\ arg = NoArg
    /\ status = srtp_err_status_ok
    /\ calls = <<>>
    /\ buf = <<>>
    /\ len = 0
    /\ given = <<>>
    /\ spans = 0
    /\ ukey = NoKey
    /\ uiv = NoIv
    /\ epoch = 0
    /\ pkts = 0
    /\ done = FALSE
    /\ phase = "none"
    /\ conf = TRUE
    /\ n = 0
    /\ keySeen = 0
    /\ ivSeen = 0
    /\ pkt = NoPkt
    /\ ub = "none"
    /\ trail = [e |-> NoTrail, d |-> NoTrail]

Alive == cipher.state /\ ub = "none"

(***************************************************************************)
(* Actions: one per entry point of the cipher type table.  A run is the    *)
(* life of one cipher object, which starts with its allocation.            *)
(***************************************************************************)
Alloc ==
    /\ op = "none"
    /\ calls' = <<>>
    /\ \E ka \in AllocArgs, oom \in 0..2 :
         LET key_len == ka[1]
             tl == ka[2]
             r == srtp_aes_gcm_mbedtls_alloc(key_len, tl, oom)
         IN /\ cipher' = r.cipher
            /\ c' = r.c
            /\ status' = r.ret
            /\ Called("alloc", [NoArg EXCEPT !.key_len = key_len,
                                             !.tlen = tl, !.oom = oom],
                      r.ret = srtp_err_status_ok)
    /\ ukey' = NoKey
    /\ NewEpoch
    /\ NoBuffer
    /\ UNCHANGED <<keySeen, ivSeen, pkt, ub>>

Dealloc ==
    /\ Alive
    /\ LET r == srtp_aes_gcm_mbedtls_dealloc(c)
       IN /\ cipher' = r.cipher
          /\ c' = r.c
          /\ status' = r.ret
          /\ calls' = r.calls
          /\ Called("dealloc", NoArg, TRUE)
    /\ ukey' = NoKey
    /\ NewEpoch
    /\ NoBuffer
    /\ UNCHANGED <<keySeen, ivSeen, pkt, ub>>

ContextInit ==
    /\ Alive
    /\ \E key \in Keys(keySeen), oom \in 0..2 :
         LET r == srtp_aes_gcm_mbedtls_context_init(c, key, oom)
         IN /\ c' = r.c
            /\ status' = r.ret
            /\ calls' = r.calls
            /\ keySeen' = Max(keySeen, key)
            /\ ukey' = IF r.ret = srtp_err_status_ok THEN key ELSE NoKey
            /\ Called("context_init",
                      [NoArg EXCEPT !.key = key, !.oom = oom],
                      r.ret = srtp_err_status_ok)
    /\ NewEpoch
    /\ NoBuffer
    /\ UNCHANGED <<cipher, ivSeen, pkt, ub>>

SetIv ==
    /\ Alive
    /\ \E iv \in Nonces(ivSeen), direction \in Directions :
         LET r == srtp_aes_gcm_mbedtls_set_iv(c, iv, direction)
             ok == r.ret = srtp_err_status_ok
         IN /\ c' = r.c
            /\ status' = r.ret
            /\ calls' = r.calls
            /\ given' = IF ok THEN <<>> ELSE given
            /\ spans' = IF ok THEN 0 ELSE spans
            /\ uiv' = IF ok THEN iv ELSE uiv
            /\ pkts' = IF ok THEN pkts + 1 ELSE pkts
            /\ ivSeen' = Max(ivSeen, iv)
            /\ Called("set_iv", [NoArg EXCEPT !.iv = iv, !.dir = direction],
                      ok)
    /\ done' = FALSE
    /\ NoBuffer
    /\ UNCHANGED <<cipher, ukey, epoch, keySeen, pkt, ub>>

SetAad ==
    /\ Alive
    /\ \E aad \in AadSpans :
         LET r == srtp_aes_gcm_mbedtls_set_aad(c, aad)
         IN /\ status' = r.ret
            /\ calls' = r.calls
            /\ given' = RCat(given, aad)
            /\ spans' = spans + 1
            /\ Called("set_aad", [NoArg EXCEPT !.aad = aad], TRUE)
            /\ IF r.over = 0
               THEN c' = r.c /\ ub' = "none"
               ELSE \* the memcpy ran into ctxe: its first octets are whatever
                    \* the span held there
                    /\ ub' = "aad_overflow"
                    /\ \E e \in {r.c.ctxe, SmashedSub} :
                          c' = [r.c EXCEPT !.ctxe = e]
    /\ NoBuffer
    /\ UNCHANGED <<cipher, ukey, uiv, epoch, pkts, done, keySeen, ivSeen, pkt>>

Encrypt ==
    /\ Alive
    /\ \E pt \in Plaintexts :
         LET r == srtp_aes_gcm_mbedtls_encrypt(c, pt, Len(pt))
         IN /\ c' = r.c
            /\ status' = r.ret
            /\ calls' = r.calls
            /\ buf' = r.buf
            /\ len' = r.len
            /\ done' = (done \/ r.ret = srtp_err_status_ok)
            /\ Called("encrypt", [NoArg EXCEPT !.buf = pt], TRUE)
    /\ UNCHANGED <<cipher, given, spans, ukey, uiv, epoch, pkts, keySeen,
                   ivSeen, pkt, ub>>

GetTag ==
    /\ Alive
    /\ LET r == srtp_aes_gcm_mbedtls_get_tag(c, TagRoom, 0)
           ok == r.ret = srtp_err_status_ok
       IN /\ c' = r.c
          /\ status' = r.ret
          /\ calls' = r.calls
          /\ buf' = r.buf
          /\ len' = r.len
          /\ pkt' = IF ok /\ op = "encrypt" /\ status = srtp_err_status_ok
                    THEN [made |-> TRUE, key |-> ukey,
                          key_size |-> c.key_size, iv |-> uiv,
                          aad |-> given, pt |-> arg.buf,
                          ct |-> SubSeq(buf, 1, len),
                          tag |-> SubSeq(r.buf, 1, r.len),
                          tag_len |-> r.len,
                          first |-> (conf /\ InOrder("get_tag", NoArg)
                                     /\ pkts = 1),
                          spans |-> spans, epoch |-> epoch]
                    ELSE pkt
          /\ Called("get_tag", [NoArg EXCEPT !.buf = TagRoom], ok)
    /\ UNCHANGED <<cipher, given, spans, ukey, uiv, epoch, pkts, done,
                   keySeen, ivSeen, ub>>

Decrypt ==
    /\ Alive
    /\ \E in \in DecInputs :
         LET r == srtp_aes_gcm_mbedtls_decrypt(c, in, Len(in))
         IN /\ c' = r.c
            /\ calls' = r.calls
            /\ buf' = r.buf
            /\ len' = r.len
            /\ IF r.wild
               THEN status' = "undefined" /\ ub' = "decrypt_short_input"
               ELSE status' = r.ret /\ ub' = "none"
            /\ done' = (done \/ (r.ret = srtp_err_status_ok /\ ~r.wild))
            /\ Called("decrypt", [NoArg EXCEPT !.buf = in], TRUE)
    /\ UNCHANGED <<cipher, given, spans, ukey, uiv, epoch, pkts, keySeen,
                   ivSeen, pkt>>

(***************************************************************************)
(* A caller that makes up to MaxOps calls in any order                     *)
(***************************************************************************)
InBudget == n < MaxOps

Next ==
    \/ InBudget /\ Alloc
    \/ InBudget /\ Dealloc
    \/ InBudget /\ ContextInit
    \/ InBudget /\ SetIv
    \/ InBudget /\ SetAad
    \/ InBudget /\ Encrypt
    \/ InBudget /\ GetTag
    \/ InBudget /\ Decrypt

Spec == Init /\ [][Next]_vars

(***************************************************************************)
(* A caller that follows the protocol for up to MaxFlow calls              *)
(***************************************************************************)
InFlow == n < MaxFlow

NextFlow ==
    \/ InFlow /\ Alloc /\ conf'
    \/ InFlow /\ Dealloc /\ conf'
    \/ InFlow /\ ContextInit /\ conf'
    \/ InFlow /\ SetIv /\ conf'
    \/ InFlow /\ SetAad /\ conf'
    \/ InFlow /\ Encrypt /\ conf'
    \/ InFlow /\ GetTag /\ conf'
    \/ InFlow /\ Decrypt /\ conf'

SpecFlow == Init /\ [][NextFlow]_vars

(***************************************************************************)
(* Properties                                                              *)
(***************************************************************************)
Keyed == ukey # NoKey
IvSet == uiv # NoIv

\* C5: on a key-initialised context on which no set-IV has succeeded since
\* the last key initialisation, encrypt and decrypt return BadParameter,
\* call no primitive, and leave the caller's buffer, the length and the
\* context as they were.
C5_NeedsIv ==
    [][(Alive /\ Keyed /\ ~IvSet /\ n' = n + 1
        /\ op' \in {"encrypt", "decrypt"})
       => (/\ status' = srtp_err_status_bad_param
           /\ calls' = <<>>
           /\ buf' = arg'.buf
           /\ len' = Len(arg'.buf)
           /\ c' = c)]_vars

C5_Witness ==
    /\ Alive /\ Keyed /\ ~IvSet
    /\ op = "encrypt"
    /\ arg.buf # <<>>
    /\ status = srtp_err_status_bad_param
    /\ buf = arg.buf

\* C6: get-tag on a key-initialised context on which no set-IV has been
\* accepted since the key initialisation (its direction is undetermined)
\* returns BadParameter and does not call the primitive's tag computation.
C6_GetTagNeedsDirection ==
    (Alive /\ Keyed /\ ~IvSet /\ op = "get_tag")
    => (/\ status = srtp_err_status_bad_param
        /\ \A i \in 1..Len(calls) : calls[i].fn # "write_tag")

\* C7: once an encrypt or a decrypt has completed on a context, a further
\* encrypt or decrypt is not accepted (it does not return ok and the
\* primitive does not process data again) until set-IV has been called
\* again.
C7_OnePerIv ==
    [][(Alive /\ done /\ n' = n + 1 /\ op' \in {"encrypt", "decrypt"})
       => (/\ status' # srtp_err_status_ok
           /\ \A i \in 1..Len(calls') : calls'[i].fn # "update")]_vars

\* C8: the buffered AAD length is always between 0 and the capacity of the
\* AAD buffer.
C8_AadLenInRange ==
    cipher.state => (c.aad_len >= 0 /\ c.aad_len <= 1024)

\* C10: alloc with a key length other than 28 or 44, or a tag length other
\* than 8 or 16, returns BadParameter and creates nothing; otherwise, memory
\* permitting, it returns ok with a zero-filled context whose key size is 16
\* for 28 and 32 for 44 and whose tag length is the one asked for.
C10_Expect(key_len, tl, ret, made, ctx) ==
    IF key_len \notin {28, 44} \/ tl \notin {8, 16}
    THEN ret = srtp_err_status_bad_param /\ ~made /\ ctx = ZeroCtx
    ELSE /\ ret = srtp_err_status_ok
         /\ made
         /\ ctx = [ZeroCtx EXCEPT !.key_size = IF key_len = 28 THEN 16
                                               ELSE 32,
                                  !.tag_len = tl]

C10_AllocValidates ==
    op = "alloc" =>
      /\ arg.oom = 0
           => C10_Expect(arg.key_len, arg.tlen, status, cipher.state, c)
      /\ \A key_len \in 0..45, tl \in 0..17 :
           LET r == srtp_aes_gcm_mbedtls_alloc(key_len, tl, 0)
           IN C10_Expect(key_len, tl, r.ret, r.made, r.c)

C10_Witness ==
    /\ op = "alloc"
    /\ arg.key_len = 44 /\ arg.tlen = 8 /\ arg.oom = 0
    /\ status = srtp_err_status_ok
    /\ c.key_size = 32 /\ c.tag_len = 8

\* the decrypting context is in its first packet since a successful key
\* initialisation, the caller has followed the protocol, and the key, the
\* nonce and the cipher's sizes are those of the packet pkt, which was the
\* first packet of the context that encrypted it
FreshDecrypt ==
    /\ Alive /\ Keyed /\ conf
    /\ op = "decrypt"
    /\ pkts = 1
    /\ pkt.made /\ pkt.first
    /\ ukey = pkt.key /\ uiv = pkt.iv
    /\ c.key_size = pkt.key_size /\ c.tag_len = pkt.tag_len

C2_SameContext ==
    (/\ Alive /\ Keyed /\ conf
     /\ op = "decrypt"
     /\ pkt.made /\ pkt.first /\ pkt.epoch = epoch
     /\ pkts = 2
     /\ uiv = pkt.iv
     /\ given = pkt.aad
     /\ arg.buf = Wire(pkt))
    => (/\ status = srtp_err_status_ok
        /\ len = Len(pkt.pt)
        /\ SubSeq(buf, 1, len) = pkt.pt)

SplitSpans == {<<>>, Run(1, 1), Run(2, 1), RCat(Run(1, 1), Run(2, 1))}

C4_SplitAad ==
    (Alive /\ Keyed /\ op = "set_iv" /\ status = srtp_err_status_ok)
    => \A a \in SplitSpans, b \in SplitSpans :
         LET two == srtp_aes_gcm_mbedtls_set_aad(
                        srtp_aes_gcm_mbedtls_set_aad(c, a).c, b).c
             one == srtp_aes_gcm_mbedtls_set_aad(c, RCat(a, b)).c
         IN c.aad_len + RLen(a) + RLen(b) <= AAD_CAPACITY
            => /\ two.aad = one.aad
               /\ two.aad_len = one.aad_len
               /\ Prefix(two.aad, two.aad_len)
                    = RCat(Prefix(c.aad, c.aad_len), RCat(a, b))
               /\ \A pt \in Plaintexts :
                    LET e2 == srtp_aes_gcm_mbedtls_encrypt(two, pt, Len(pt))
                        e1 == srtp_aes_gcm_mbedtls_encrypt(one, pt, Len(pt))
                        t2 == srtp_aes_gcm_mbedtls_get_tag(e2.c, TagRoom, 0)
                        t1 == srtp_aes_gcm_mbedtls_get_tag(e1.c, TagRoom, 0)
                    IN /\ e2.ret = e1.ret /\ e2.buf = e1.buf
                       /\ t2.ret = t1.ret /\ t2.buf = t1.buf

C4_Witness ==
    /\ Alive /\ Keyed /\ IvSet
    /\ op = "set_aad" /\ spans = 2
    /\ given = RCat(Run(1, 1), Run(2, 1))
    /\ c.aad_len = 2
    /\ Prefix(c.aad, c.aad_len) = given

\* C9: decrypt takes the last tag_len octets of its input as the tag and
\* the octets before them as the ciphertext; it returns ok exactly when
\* check_tag accepts that tag and no primitive call failed, it returns
\* AuthenticationFailure exactly when check_tag rejects it, and on ok the
\* length is the input's less tag_len.
C9_TagSplit ==
    (Alive /\ op = "decrypt") =>
      LET in == arg.buf
          L == Len(in)
          k == Len(calls)
          checked == k >= 3 /\ calls[k].fn = "check_tag"
      IN /\ status = srtp_err_status_ok
              <=> (/\ checked
                   /\ \A i \in 1..k : calls[i].ret = MBEDTLS_OK)
         /\ status = srtp_err_status_auth_fail
              <=> (checked /\ calls[k].ret # MBEDTLS_OK)
         /\ checked
              => /\ calls[k].arg = SubSeq(in, L - c.tag_len + 1, L)
                 /\ calls[k - 2].fn = "update"
                 /\ calls[k - 2].arg = SubSeq(in, 1, L - c.tag_len)
         /\ status = srtp_err_status_ok => len = L - c.tag_len

C9_Witness ==
    /\ Alive /\ op = "decrypt"
    /\ status = srtp_err_status_ok
    /\ c.tag_len = 8
    /\ Len(arg.buf) = 10
    /\ len = 2

\* the two sub-contexts were freed, ctxe first
BothFreed(k) ==
    /\ Len(k) = 2
    /\ k[1].fn = "free" /\ k[1].sub = "e"
    /\ k[2].fn = "free" /\ k[2].sub = "d"

\* C11: dealloc returns ok from every state of an allocated context, and
\* when the memory is released both sub-contexts have been freed and every
\* field of the context (key size, tag length, AAD length, AAD octets,
\* direction, the storage of both sub-contexts) is zero.
C11_DeallocZeroizes ==
    /\ Alive =>
         LET r == srtp_aes_gcm_mbedtls_dealloc(c)
         IN /\ r.ret = srtp_err_status_ok
            /\ r.c = ZeroCtx
            /\ ~r.cipher.state
            /\ BothFreed(r.calls)
    /\ op = "dealloc" =>
         /\ status = srtp_err_status_ok
         /\ c = ZeroCtx
         /\ c.key_size = 0 /\ c.tag_len = 0 /\ c.aad_len = 0
         /\ c.aad = <<>> /\ c.dir = 0
         /\ c.ctxe = mbedtls_cipher_init /\ c.ctxd = mbedtls_cipher_init
         /\ ~cipher.state
         /\ BothFreed(calls)

\* a context that was key-initialised and given a nonce has been released
C11_Witness ==
    /\ op = "dealloc"
    /\ keySeen > 0 /\ ivSeen > 0
    /\ status = srtp_err_status_ok
    /\ c = ZeroCtx
    /\ BothFreed(calls)

\* C12: between allocation and deallocation key_size and tag_len keep the
\* values recorded at allocation (key_size 16 for a 28-octet key, 32 for a
\* 44-octet key; tag_len as asked for): no key initialisation, set-IV,
\* set-AAD, encrypt, decrypt or get-tag, succeeding or failing, changes
\* them.
C12_SizesFixed ==
    [][/\ (n' = n + 1 /\ op' = "alloc"
           /\ status' = srtp_err_status_ok)
          => (/\ c'.key_size
                   = (IF arg'.key_len = SRTP_AES_GCM_128_KEY_LEN_WSALT
                      THEN SRTP_AES_128_KEY_LEN ELSE SRTP_AES_256_KEY_LEN)
              /\ c'.tag_len = arg'.tlen)
       /\ (Alive /\ Alive' /\ n' = n + 1)
          => (/\ op' \in {"context_init", "set_iv", "set_aad", "encrypt",
                          "decrypt", "get_tag"}
              /\ c'.key_size = c.key_size
              /\ c'.tag_len = c.tag_len)]_vars

\* a failed decrypt on a key-initialised 256-bit context with the short tag
C12_Witness ==
    /\ Alive /\ Keyed /\ IvSet
    /\ op = "decrypt"
    /\ status = srtp_err_status_auth_fail
    /\ cipher.key_len = SRTP_AES_GCM_256_KEY_LEN_WSALT
    /\ c.key_size = SRTP_AES_256_KEY_LEN
    /\ c.tag_len = GCM_AUTH_TAG_LEN_8

\* C13: the buffered AAD is consumed once per packet: after an encrypt or
\* a decrypt has forwarded it, the pending AAD is empty (aad_len zero) when
\* the next packet starts with set-IV, and the AAD that a later encrypt or
\* decrypt hands to the primitive is the AAD given for that packet alone.
C13_AadConsumedPerPacket ==
    /\ (Alive /\ Keyed /\ conf /\ op = "set_iv"
        /\ status = srtp_err_status_ok)
       => c.aad_len = 0
    /\ (Alive /\ Keyed /\ conf /\ op \in {"encrypt", "decrypt"})
       => \A i \in 1..Len(calls) :
             calls[i].fn = "update_ad" => calls[i].arg = given

\* what C14 asks of a context x that context_init left with status ret
\* for the key key, having made the primitive calls k
C14_Expect(x, key, ret, k) ==
    /\ x.dir = srtp_direction_any
    /\ x.aad_len = 0
    /\ ret = srtp_err_status_ok
       => LET variant == IF x.key_size = SRTP_AES_256_KEY_LEN
                         THEN MBEDTLS_CIPHER_AES_256_GCM
                         ELSE MBEDTLS_CIPHER_AES_128_GCM
          IN /\ x.key_size \in {SRTP_AES_128_KEY_LEN, SRTP_AES_256_KEY_LEN}
             /\ x.ctxe.info = variant /\ x.ctxd.info = variant
             /\ x.ctxe.key = key /\ x.ctxd.key = key
             /\ x.ctxe.operation = MBEDTLS_ENCRYPT
             /\ x.ctxd.operation = MBEDTLS_DECRYPT
             /\ k = <<Call("setup", "e", MBEDTLS_OK, variant),
                      Call("setup", "d", MBEDTLS_OK, variant),
                      Call("setkey", "e", MBEDTLS_OK, key),
                      Call("setkey", "d", MBEDTLS_OK, key)>>

\* C14: key initialisation in any state of an allocated context sets the
\* direction to undetermined and the AAD length to zero, and when it
\* returns ok both sub-contexts are set up with the algorithm variant that
\* matches key_size and keyed with the same key, ctxe for encryption and
\* ctxd for decryption.
C14_KeyInit ==
    /\ (Alive /\ op = "context_init") => C14_Expect(c, arg.key, status, calls)
    /\ Alive =>
         \A key \in KeyNames, oom \in 0..2 :
            LET r == srtp_aes_gcm_mbedtls_context_init(c, key, oom)
            IN C14_Expect(r.c, key, r.ret, r.calls)

\* a context that had a direction and buffered AAD has been keyed again
C14_Witness ==
    /\ Alive /\ op = "context_init"
    /\ status = srtp_err_status_ok
    /\ ivSeen > 0
    /\ c.aad # <<>> /\ c.aad_len = 0
    /\ c.dir = srtp_direction_any
    /\ c.ctxe.key = arg.key /\ c.ctxd.key = arg.key
    /\ c.ctxe.info = MBEDTLS_CIPHER_AES_256_GCM

\* C15: set-IV, encrypt, decrypt and get-tag change only the sub-context
\* that the direction selects (for set-IV the direction it is given): the
\* other sub-context keeps its key, its nonce and its running state, and
\* set-IV also leaves the buffered AAD and its length as they were.
C15_OtherSubContextKept ==
    [][(Alive /\ Alive' /\ n' = n + 1
        /\ op' \in {"set_iv", "encrypt", "decrypt", "get_tag"})
       => (/\ Sel(c') = "e" => c'.ctxd = c.ctxd
           /\ Sel(c') = "d" => c'.ctxe = c.ctxe
           /\ op' \in {"encrypt", "decrypt", "get_tag"} => c'.dir = c.dir
           /\ op' = "set_iv"
              => (c'.aad = c.aad /\ c'.aad_len = c.aad_len))]_vars

\* an encrypt has run on ctxe while ctxd holds another nonce and no data
C15_Witness ==
    /\ Alive /\ Keyed
    /\ op = "encrypt" /\ status = srtp_err_status_ok
    /\ Sel(c) = "e"
    /\ c.ctxe.data # <<>>
    /\ c.ctxd.iv # NoIv /\ c.ctxd.iv # c.ctxe.iv
    /\ c.ctxd.started /\ c.ctxd.data = <<>>

\* C16: set-AAD makes no primitive call, and whenever encrypt or decrypt
\* calls the primitive's data update, exactly one update_ad call has been
\* made on the active sub-context since the last reset of that sub-context,
\* and it carried the whole buffered AAD (the empty AAD when nothing is
\* buffered).
C16_AadOncePerDataPhase ==
    /\ op = "set_aad" => calls = <<>>
    /\ (/\ Alive
        /\ op \in {"encrypt", "decrypt"}
        /\ \E i \in 1..Len(calls) : calls[i].fn = "update")
       => LET h == trail[Sel(c)]
          IN /\ h.reset
             /\ Len(h.ads) = 1
             /\ h.ads[1] = Prefix(c.aad, c.aad_len)

\* C17 as stated: in decrypt every failure of a primitive call other than
\* the tag check (reset, update_ad, update, finish) is reported as
\* CipherFailure, and AuthenticationFailure is returned only when the tag
\* check reports a mismatch.
C17_FailuresAreCipherFailure ==
    (Alive /\ op = "decrypt") =>
      /\ \A i \in 1..Len(calls) :
            (/\ calls[i].fn \in {"reset", "update_ad", "update", "finish"}
             /\ calls[i].ret # MBEDTLS_OK)
            => status = srtp_err_status_cipher_fail
      /\ status = srtp_err_status_auth_fail
         => (/\ calls # <<>>
             /\ calls[Len(calls)].fn = "check_tag"
             /\ calls[Len(calls)].ret = MBEDTLS_ERR_CIPHER_AUTH_FAILED)

\* C17, amended: decrypt stops at the first primitive call that fails; a
\* failure of reset or update_ad is reported as AlgorithmFailure, a failure
\* of update or finish as CipherFailure, and any failure of check_tag (a
\* mismatch, or the primitive refusing the check) as AuthenticationFailure;
\* no other call gives these statuses.
C17_StatusByFailedCall ==
    (Alive /\ op = "decrypt") =>
      LET k == Len(calls)
          failed(i) == calls[i].ret # MBEDTLS_OK
          last == IF k > 0 /\ failed(k) THEN calls[k].fn ELSE "none"
      IN /\ \A i \in 1..k : failed(i) => i = k
         /\ last \in {"none", "reset", "update_ad", "update", "finish",
                      "check_tag"}
         /\ status = srtp_err_status_algo_fail
              <=> last \in {"reset", "update_ad"}
         /\ status = srtp_err_status_cipher_fail
              <=> last \in {"update", "finish"}
         /\ status = srtp_err_status_auth_fail <=> last = "check_tag"

\* the AAD update of a decrypt failed and the status is AlgorithmFailure
C17_Witness ==
    /\ Alive /\ op = "decrypt"
    /\ status = srtp_err_status_algo_fail
    /\ Len(calls) = 2
    /\ calls[1].fn = "reset" /\ calls[1].ret = MBEDTLS_OK
    /\ calls[2].fn = "update_ad" /\ calls[2].ret # MBEDTLS_OK

\* C18: when decrypt returns AuthenticationFailure the caller's buffer
\* already holds, in place of the ciphertext, what the primitive made of it
\* (on the decrypt sub-context: the ciphertext with the keystream taken
\* off, the unauthenticated plaintext), the octets behind it are as the
\* caller gave them, and the reported length is the input length less
\* tag_len: nothing is scrubbed or put back.
C18_PlaintextLeftOnAuthFail ==
    (Alive /\ op = "decrypt" /\ status = srtp_err_status_auth_fail) =>
      LET in == arg.buf
          m == Len(in) - c.tag_len
          s == Sub(c, Sel(c))
          pos == Len(s.data) - m
      IN /\ len = m
         /\ Len(buf) = Len(in)
         /\ \A i \in 1..m :
               buf[i].v =
                 IF s.operation = MBEDTLS_DECRYPT
                 THEN (in[i].v + OCTET - KeyStream(s.key, s.iv, pos + i))
                        % OCTET
                 ELSE (in[i].v + KeyStream(s.key, s.iv, pos + i)) % OCTET
         /\ \A i \in (m + 1)..Len(in) : buf[i] = in[i]

\* a decrypt on the decrypt sub-context failed the tag check and left
\* octets that differ from the ciphertext it was given
C18_Witness ==
    /\ Alive /\ Keyed /\ IvSet
    /\ op = "decrypt" /\ status = srtp_err_status_auth_fail
    /\ Sel(c) = "d"
    /\ len > 0 /\ len = Len(arg.buf) - c.tag_len
    /\ SubSeq(buf, 1, len) # SubSeq(arg.buf, 1, len)

\* C19: set-IV with a direction that is neither encrypt nor decrypt returns
\* BadParameter, makes no primitive call, and leaves the recorded direction,
\* both sub-contexts and the buffered AAD (the whole context) unchanged.
C19_BadDirection ==
    [][/\ (Alive /\ n' = n + 1 /\ op' = "set_iv"
           /\ arg'.dir # srtp_direction_encrypt
           /\ arg'.dir # srtp_direction_decrypt)
          => (/\ status' = srtp_err_status_bad_param
              /\ calls' = <<>>
              /\ c'.dir = c.dir
              /\ c'.ctxe = c.ctxe /\ c'.ctxd = c.ctxd
              /\ c'.aad = c.aad /\ c'.aad_len = c.aad_len
              /\ c' = c)
       /\ Alive
          => \A direction \in {-1, srtp_direction_any, 3},
                iv \in NonceNames :
               srtp_aes_gcm_mbedtls_set_iv(c, iv, direction)
                 = [ret |-> srtp_err_status_bad_param, c |-> c,
                    calls |-> <<>>]]_vars

\* a context with a direction, a nonce and buffered AAD has refused a set-IV
C19_Witness ==
    /\ Alive /\ Keyed /\ IvSet
    /\ op = "set_iv"
    /\ arg.dir = srtp_direction_any
    /\ status = srtp_err_status_bad_param
    /\ calls = <<>>
    /\ c.dir = srtp_direction_decrypt
    /\ c.aad_len > 0
    /\ c.ctxd.iv # NoIv

\* C20: a context that has been allocated (zero-filled) and not yet
\* key-initialised has an undetermined direction: encrypt and decrypt on it
\* return BadParameter, select no sub-context and call no primitive.
C20_UnkeyedRejects ==
    (Alive /\ keySeen = 0 /\ ivSeen = 0 /\ op \in {"encrypt", "decrypt"})
    => (status = srtp_err_status_bad_param /\ calls = <<>>)

\* C21: for every decrypt with the direction set that reaches the data
\* phase, the ciphertext length handed to the primitive's update is at most
\* the input length, also when the input is shorter than tag_len (the
\* unsigned subtraction input length - tag_len does not wrap), and the tag
\* is read from within the input octets.
C21_CipherLenWithinInput ==
    (/\ cipher.state /\ Keyed /\ IvSet /\ DirIsSet(c)
     /\ op = "decrypt"
     /\ status # srtp_err_status_bad_param
     /\ status # srtp_err_status_algo_fail)
    => LET L == Len(arg.buf)
       IN /\ LeqU32(DecryptCipherLen(L, c.tag_len), U32(L))
          /\ L - c.tag_len >= 0
          /\ ub # "decrypt_short_input"
          /\ \A i \in 1..Len(calls) :
                calls[i].fn = "update" => Len(calls[i].arg) <= L

\* C22: when encrypt returns an error (BadParameter, AlgorithmFailure or
\* CipherFailure) the octets of the caller's buffer are as the caller gave
\* them: the output is staged in a scratch buffer and copied back only
\* after update and finish have both succeeded.
C22_EncryptErrorKeepsBuffer ==
    /\ (Alive /\ op = "encrypt" /\ status # srtp_err_status_ok)
       => (/\ buf = arg.buf
           /\ status \in {srtp_err_status_bad_param,
                          srtp_err_status_algo_fail,
                          srtp_err_status_cipher_fail})
    /\ Alive
       => \A pt \in Plaintexts :
             LET r == srtp_aes_gcm_mbedtls_encrypt(c, pt, Len(pt))
                 k == Len(r.calls)
             IN /\ r.ret # srtp_err_status_ok => r.buf = pt
                /\ r.buf # pt
                   => (/\ k >= 2
                       /\ r.calls[k].fn = "finish"
                       /\ r.calls[k].ret = MBEDTLS_OK
                       /\ r.calls[k - 1].fn = "update"
                       /\ r.calls[k - 1].ret = MBEDTLS_OK)

\* the primitive refused the data of an encrypt and the caller's octets
\* are untouched
C22_Witness ==
    /\ Alive /\ op = "encrypt"
    /\ status = srtp_err_status_cipher_fail
    /\ arg.buf # <<>>
    /\ buf = arg.buf
    /\ calls # <<>> /\ calls[Len(calls)].fn = "update"

\* C23: a set-IV that returns an error (BadParameter, AlgorithmFailure or
\* InitializationFailure) leaves the recorded direction as it was before
\* the call, so a context whose direction was undetermined still has an
\* undetermined direction, and rejects encrypt and decrypt with
\* BadParameter, after a failed set-IV.
C23_FailedSetIvKeepsDirection ==
    [][(Alive /\ n' = n + 1 /\ op' = "set_iv"
        /\ status' # srtp_err_status_ok)
       => (/\ c'.dir = c.dir
           /\ ~DirIsSet(c) =>
                \A pt \in Plaintexts :
                   /\ srtp_aes_gcm_mbedtls_encrypt(c', pt, Len(pt)).ret
                        = srtp_err_status_bad_param
                   /\ srtp_aes_gcm_mbedtls_decrypt(c', pt, Len(pt)).ret
                        = srtp_err_status_bad_param)]_vars

====
